---- MODULE Spec2Model ----
(***************************************************************************)
(* Model of models.py: the sub-model constructors (residual_discriminator, *)
(* residual_decoder, residual_ae), the four builders (build_gan,           *)
(* build_cyclegan, build_cyclewgan, wgangp_conditional) as straight-line   *)
(* programs over a heap of sub-models, a graph of symbolic tensors and the *)
(* joint models they compile, and the two numeric helpers                  *)
(* (RandomWeightedAverage, gradient_penalty_loss) over small tensors.      *)
(* Spec runs the builders on image sizes their sub-models fit; SpecSizes   *)
(* runs them on any size, where a call or a subtraction the backend        *)
(* rejects ends the builder.                                               *)
(***************************************************************************)
EXTENDS Integers, Sequences, FiniteSets, TLC

VARIABLES
    builder,    \* which builder function is running ("" when none)
    args,       \* its keyword arguments
    pc,         \* position in the builder's body
    models,     \* heap of constructed sub-models, by construction order
    trainable,  \* per sub-model: the model's and each layer's trainable flag
    locals,     \* python local variable -> index into models
    tensors,    \* symbolic tensors: name -> [op, model, args, shape]
    joint,      \* joint models: name -> inputs, outputs, losses, compile data
    returned,   \* the tuple the builder returns (names of locals)
    num         \* state of the numeric helpers (SpecGP, SpecRWA, SpecCyc)

vars == <<builder, args, pc, models, trainable, locals, tensors, joint, returned, num>>

buildVars == <<builder, args, pc, models, trainable, locals, tensors, joint, returned>>

----------------------------------------------------------------------------
(* Bounds of the model. *)

MaxChannels == 2
MaxLatent == 2
MaxCond == 2

(* Image sizes explored by the builders: multiples of the generator's      *)
(* upsampling factor.                                                      *)
ImageSizes == {16, 32}

----------------------------------------------------------------------------
(* Arithmetic helpers. *)

CeilDiv(a, b) == (a + b - 1) \div b

RECURSIVE Repeat(_, _)
Repeat(s, n) == IF n = 0 THEN <<>> ELSE s \o Repeat(s, n - 1)

(* Broadcasting of two static shapes: the shapes are compatible when they  *)
(* have the same rank and on every axis the lengths are equal or one of    *)
(* them is 1, and the axis of length 1 is the one repeated.                *)
Broadcasts(a, b) ==
    /\ Len(a) = Len(b)
    /\ \A k \in 1..Len(a) : a[k] = b[k] \/ a[k] = 1 \/ b[k] = 1

BroadcastShape(a, b) == [k \in 1..Len(a) |-> IF a[k] = 1 THEN b[k] ELSE a[k]]

----------------------------------------------------------------------------
(* Layers.  A sub-model is a flat list of keras layers; only some kinds    *)
(* carry weights.                                                          *)

WeightedKinds == {"Conv2D", "Conv2DTranspose", "Dense"}

(* The spatial size with the border dropped instead of padded. *)
conv_floor(x, stride) == x \div stride

(* conv(f, k, stride, pad='same'): spatial size under padding 'same'. *)
conv(x, stride) == CeilDiv(x, stride)

(* _res_conv(f, k, dropout) applied to a tensor with `channels` channels:  *)
(* the layers it adds.                                                     *)
_res_conv(f, channels, dropout) ==
    <<"Conv2D">>
    \o (IF f # channels THEN <<"Conv2D">> ELSE <<>>)
    \o <<"Add", "LeakyReLU">>
    \o (IF dropout THEN <<"Dropout">> ELSE <<>>)

(* up_bilinear(): resize to twice the static height and width. *)
up_bilinear(x) == x * 2

(* The output branch of lines 120-123 taken on as_classifier >= 0. *)
residual_discriminator_softmax_at_zero(h, w, c, dropout, as_classifier) ==
    LET h1 == conv(h, 1)                w1 == conv(w, 1)
        h2 == conv(h1, 2)               w2 == conv(w1, 2)
        h3 == conv(h2, 2)               w3 == conv(w2, 2)
        h4 == conv(h3, 2)               w4 == conv(w3, 2)
        h5 == conv(h4, 2)               w5 == conv(w4, 2)
    IN  [ fn            |-> "residual_discriminator",
          as_classifier |-> as_classifier,
          input_shape   |-> <<h, w, c>>,
          hidden        |-> h5 * w5 * 512,
          output_shape  |-> IF as_classifier >= 0 THEN <<as_classifier>> ELSE <<1>>,
          activation    |-> IF as_classifier >= 0 THEN "softmax" ELSE "linear",
          layers        |-> <<"InputLayer">>
                            \o Repeat(<<"Conv2D", "LeakyReLU", "Dropout">>, 5)
                            \o _res_conv(512, 256, dropout)
                            \o <<"Flatten", "Dense">> ]

(* residual_discriminator(h, w, c, k, dropout_rate, as_classifier); the     *)
(* record keeps the as_classifier the model was built with.                *)
residual_discriminator(h, w, c, dropout, as_classifier) ==
    LET h1 == conv(h, 1)                w1 == conv(w, 1)
        h2 == conv(h1, 2)               w2 == conv(w1, 2)
        h3 == conv(h2, 2)               w3 == conv(w2, 2)
        h4 == conv(h3, 2)               w4 == conv(w3, 2)
        h5 == conv(h4, 2)               w5 == conv(w4, 2)
    IN  [ fn           |-> "residual_discriminator",
          as_classifier |-> as_classifier,
          input_shape  |-> <<h, w, c>>,
          hidden       |-> h5 * w5 * 512,
          output_shape |-> IF as_classifier > 0 THEN <<as_classifier>> ELSE <<1>>,
          activation   |-> IF as_classifier > 0 THEN "softmax" ELSE "linear",
          layers       |-> <<"InputLayer">>
                           \o Repeat(<<"Conv2D", "LeakyReLU", "Dropout">>, 5)
                           \o _res_conv(512, 256, dropout)
                           \o <<"Flatten", "Dense">> ]

(* The decoder with the PixelShuffler of line 153 taken out. *)
residual_decoder_unshuffled(h, w, c, latent_dim, dropout) ==
    LET h1 == up_bilinear(h)            w1 == up_bilinear(w)
        h2 == up_bilinear(h1)           w2 == up_bilinear(w1)
        h3 == up_bilinear(h2)           w3 == up_bilinear(w2)
    IN  [ fn           |-> "residual_decoder",
          input_shape  |-> <<latent_dim>>,
          hidden       |-> h * w * 512,
          output_shape |-> <<h3, w3, c>>,
          activation   |-> "tanh",
          layers       |-> <<"InputLayer", "Dense", "LeakyReLU", "Reshape", "Dropout">>
                           \o Repeat(<<"Lambda", "Conv2DTranspose", "LeakyReLU">>, 3)
                           \o _res_conv(64, 64, dropout)
                           \o <<"Conv2DTranspose", "LeakyReLU">>
                           \o _res_conv(32, 32, dropout)
                           \o <<"Conv2D">> ]

(* residual_decoder(h, w, c, k, latent_dim, dropout_rate) *)
residual_decoder(h, w, c, latent_dim, dropout) ==
    LET h1 == up_bilinear(h)            w1 == up_bilinear(w)
        h2 == up_bilinear(h1)           w2 == up_bilinear(w1)
        h3 == up_bilinear(h2)           w3 == up_bilinear(w2)
        h4 == h3 * 2                    w4 == w3 * 2      \* PixelShuffler
    IN  [ fn           |-> "residual_decoder",
          input_shape  |-> <<latent_dim>>,
          hidden       |-> h * w * 512,
          output_shape |-> <<h4, w4, c>>,
          activation   |-> "tanh",
          layers       |-> <<"InputLayer", "Dense", "LeakyReLU", "Reshape", "Dropout">>
                           \o Repeat(<<"Lambda", "Conv2DTranspose", "LeakyReLU">>, 3)
                           \o _res_conv(64, 64, dropout)
                           \o <<"PixelShuffler", "Conv2DTranspose", "LeakyReLU">>
                           \o _res_conv(32, 32, dropout)
                           \o <<"Conv2D">> ]

(* residual_ae(h, w, c_in, c_out, k, dropout_rate) *)
residual_ae(h, w, c_in, c_out, dropout) ==
    LET h1 == conv(h, 1)                w1 == conv(w, 1)
        h2 == conv(h1, 2)               w2 == conv(w1, 2)
        h3 == conv(h2, 2)               w3 == conv(w2, 2)
        h4 == up_bilinear(h3)           w4 == up_bilinear(w3)
        h5 == up_bilinear(h4)           w5 == up_bilinear(w4)
    IN  [ fn           |-> "residual_ae",
          input_shape  |-> <<h, w, c_in>>,
          hidden       |-> h3 * w3 * 128,
          output_shape |-> <<h5, w5, c_out>>,
          activation   |-> "tanh",
          layers       |-> <<"InputLayer", "Conv2D", "LeakyReLU", "Conv2D", "LeakyReLU",
                             "Conv2D", "LeakyReLU">>
                           \o Repeat(_res_conv(128, 128, dropout), 9)
                           \o Repeat(<<"Lambda", "Conv2DTranspose", "LeakyReLU">>, 2)
                           \o <<"Conv2D">> ]

----------------------------------------------------------------------------
(* Default keyword arguments of the builders. *)

GRADIENT_PENALTY_WEIGHT == 10
cyclic_loss_w == 10

(* The generator's total upsampling factor: t_h, t_w = h//16, w//16. *)
Upsampling == 16

Builders == {"build_gan", "build_cyclegan", "build_cyclewgan", "wgangp_conditional"}

(* The argument records a builder is called with.  Arguments a builder     *)
(* does not take are held at 0.                                            *)
GanArgs ==
    { [h |-> h, w |-> w, c |-> c, c_A |-> 0, c_B |-> 0, latent_dim |-> l,
       condition_dim |-> 0, dropout |-> d,
       GRADIENT_PENALTY_WEIGHT |-> GRADIENT_PENALTY_WEIGHT, cyclic_loss_w |-> 0] :
      h \in ImageSizes, w \in ImageSizes, c \in 1..MaxChannels, l \in 1..MaxLatent,
      d \in BOOLEAN }

CondArgs ==
    { [h |-> h, w |-> w, c |-> c, c_A |-> 0, c_B |-> 0, latent_dim |-> l,
       condition_dim |-> n, dropout |-> d,
       GRADIENT_PENALTY_WEIGHT |-> GRADIENT_PENALTY_WEIGHT, cyclic_loss_w |-> 0] :
      h \in ImageSizes, w \in ImageSizes, c \in 1..MaxChannels, l \in 1..MaxLatent,
      n \in 1..MaxCond, d \in BOOLEAN }

CycleGanArgs ==
    { [h |-> h, w |-> w, c |-> 0, c_A |-> a, c_B |-> b, latent_dim |-> 0,
       condition_dim |-> 0, dropout |-> d,
       GRADIENT_PENALTY_WEIGHT |-> 0, cyclic_loss_w |-> cyclic_loss_w] :
      h \in ImageSizes, w \in ImageSizes, a \in 1..MaxChannels, b \in 1..MaxChannels,
      d \in BOOLEAN }

CycleWganArgs ==
    { [h |-> h, w |-> w, c |-> 0, c_A |-> a, c_B |-> b, latent_dim |-> 0,
       condition_dim |-> 0, dropout |-> d,
       GRADIENT_PENALTY_WEIGHT |-> GRADIENT_PENALTY_WEIGHT,
       cyclic_loss_w |-> cyclic_loss_w] :
      h \in ImageSizes, w \in ImageSizes, a \in 1..MaxChannels, b \in 1..MaxChannels,
      d \in BOOLEAN }

ArgsOf(b) ==
    CASE b = "build_gan"          -> GanArgs
      [] b = "build_cyclegan"     -> CycleGanArgs
      [] b = "build_cyclewgan"    -> CycleWganArgs
      [] b = "wgangp_conditional" -> CondArgs

----------------------------------------------------------------------------
(* The heap of sub-models and their trainable flags. *)

Empty == [x \in {} |-> 0]

(* A freshly constructed keras layer or model has trainable = True. *)
Fresh(m) == [model |-> TRUE, layers |-> [j \in 1..Len(m.layers) |-> TRUE]]

FreshAll(ms) == [i \in 1..Len(ms) |-> Fresh(ms[i])]

(* for layer in m.layers: layer.trainable = v ; m.trainable = v *)
SetTrainable(tr, id, v) ==
    [tr EXCEPT ![id] = [model |-> v, layers |-> [j \in DOMAIN tr[id].layers |-> v]]]

RECURSIVE SetAllTrainable(_, _, _)
SetAllTrainable(tr, ids, v) ==
    IF ids = <<>> THEN tr
    ELSE SetAllTrainable(SetTrainable(tr, Head(ids), v), Tail(ids), v)

----------------------------------------------------------------------------
(* Symbolic tensors. *)

(* Input(shape=...) *)
Input(shape) == [op |-> "Input", model |-> 0, args |-> <<>>, shape |-> shape]

(* m(t): the sub-model with index m applied to tensor t (by name). *)
Call(m, t) == [op |-> "call", model |-> m, args |-> <<t>>, shape |-> models[m].output_shape]

(* RandomWeightedAverage()([a, b]): weights * a + (1 - weights) * b, of the *)
(* shape its two inputs broadcast to (their own when they agree).          *)
Averaged(a, b, ts) ==
    [op |-> "RandomWeightedAverage", model |-> 0, args |-> <<a, b>>,
     shape |-> BroadcastShape(ts[a].shape, ts[b].shape)]

(* What the layers of sub-model m give when applied to a tensor of the     *)
(* given static shape.  A Dense kernel, sized at construction for the      *)
(* length it was built on, rejects any other length: the decoder's first   *)
(* layer on the noise vector, the discriminator's last on the flattened    *)
(* features.  A convolution kernel rejects another channel count but       *)
(* accepts any height and width.                                           *)
CallRaises(m, shape) ==
    CASE m.fn = "residual_decoder" -> shape # m.input_shape
      [] m.fn = "residual_ae" ->
            \/ Len(shape) # 3
            \/ shape[Len(shape)] # m.input_shape[3]
      [] m.fn = "residual_discriminator" ->
            \/ Len(shape) # 3
            \/ shape[Len(shape)] # m.input_shape[3]
            \/ residual_discriminator(shape[1], shape[2], shape[3], FALSE, 0).hidden
                   # m.hidden

(* Every sub-model call and every average of the tensor table ts is one    *)
(* the backend accepts.                                                    *)
Sound(ms, ts) ==
    \A n \in DOMAIN ts :
        /\ ts[n].op = "call" => ~CallRaises(ms[ts[n].model], ts[ts[n].args[1]].shape)
        /\ ts[n].op = "RandomWeightedAverage" =>
              Broadcasts(ts[ts[n].args[1]].shape, ts[ts[n].args[2]].shape)

----------------------------------------------------------------------------
(* Loss terms.  A joint model's losses are the add_loss calls made on it,  *)
(* each a sum of terms  (num/den) * kind(a, b, shift).                     *)

(* coef * K.mean(t) *)
KMean(coef, t) ==
    [kind |-> "mean", num |-> coef, den |-> 1, a |-> t, b |-> "", shift |-> 0]

(* gradient_penalty_loss(y_pred, averaged_samples, gradient_penalty_weight) *)
GradientPenalty(y_pred, averaged_samples, weight) ==
    [kind |-> "gradient_penalty", num |-> weight, den |-> 1, a |-> y_pred,
     b |-> averaged_samples, shift |-> 0]

(* w * K.mean(K.abs(x - y)) *)
KMeanAbsDiff(w, x, y) ==
    [kind |-> "mean_abs_diff", num |-> w, den |-> 1, a |-> x, b |-> y, shift |-> 0]

(* The square taken of the output itself, the target forgotten. *)
HalfMeanSquareUnshifted(t, shift) ==
    [kind |-> "mean_square", num |-> 1, den |-> 2, a |-> t, b |-> "", shift |-> 0]

(* 0.5 * K.mean(K.square(t + shift)) *)
HalfMeanSquare(t, shift) ==
    [kind |-> "mean_square", num |-> 1, den |-> 2, a |-> t, b |-> "", shift |-> shift]

(* The gradient penalty with its first two arguments exchanged. *)
CriticLossSwappedPenalty(from_real, from_generator, averaged_out, averaged, weight) ==
    { KMean(1, from_real),
      KMean(-1, from_generator),
      GradientPenalty(averaged, averaged_out, weight) }

(* The two Wasserstein means with their signs exchanged. *)
CriticLossSwappedSigns(from_real, from_generator, averaged_out, averaged, weight) ==
    { KMean(-1, from_real),
      KMean(1, from_generator),
      GradientPenalty(averaged_out, averaged, weight) }

(* K.mean(from_real) - K.mean(from_generator)                               *)
(*   + gradient_penalty_loss(averaged_out, averaged, weight)               *)
CriticLoss(from_real, from_generator, averaged_out, averaged, weight) ==
    { KMean(1, from_real),
      KMean(-1, from_generator),
      GradientPenalty(averaged_out, averaged, weight) }

----------------------------------------------------------------------------
(* Joint models. *)

(* Model(inputs, outputs) *)
Model(inputs, outputs) ==
    [inputs |-> inputs, outputs |-> outputs, losses |-> <<>>, compiled |-> FALSE,
     optimizer |-> "", loss |-> <<>>, collected |-> {}, flags |-> <<>>]

(* The tensors a list of outputs depends on. *)
RECURSIVE Upstream(_, _)
Upstream(ts, names) ==
    LET next == names \cup UNION { {ts[n].args[i] : i \in DOMAIN ts[n].args} : n \in names }
    IN  IF next = names THEN names ELSE Upstream(ts, next)

Range(s) == { s[i] : i \in DOMAIN s }

(* The sub-models in the graph of joint model j. *)
SubModels(j, ts) ==
    { ts[n].model : n \in { x \in Upstream(ts, Range(j.outputs)) : ts[x].op = "call" } }

(* model.trainable_weights: the weights of the trainable layers of the     *)
(* trainable sub-models in the graph, as <<sub-model, layer index>>.       *)
TrainableWeights(j, ts, ms, tr) ==
    { <<m, i>> \in UNION { {m} \X DOMAIN ms[m].layers : m \in SubModels(j, ts) } :
        /\ ms[m].layers[i] \in WeightedKinds
        /\ tr[m].model
        /\ tr[m].layers[i] }

(* j.add_loss(terms) *)
AddLoss(j, terms) == [j EXCEPT !.losses = Append(@, terms)]

(* j.compile(optimizer, loss): the trainable weights are collected now. *)
Compile(j, optimizer, loss, ts, ms, tr) ==
    [j EXCEPT !.compiled = TRUE, !.optimizer = optimizer, !.loss = loss,
              !.collected = TrainableWeights(j, ts, ms, tr), !.flags = tr]

----------------------------------------------------------------------------
(* build_gan *)

build_gan_construct ==
    /\ builder = "build_gan" /\ pc = "start"
    /\ LET t_h == args.h \div Upsampling
           t_w == args.w \div Upsampling
           generator == residual_decoder(t_h, t_w, args.c, args.latent_dim, args.dropout)
           discriminator == residual_discriminator(args.h, args.w, args.c, args.dropout, 0)
       IN  /\ models' = <<generator, discriminator>>
           /\ trainable' = FreshAll(models')
           /\ locals' = [generator |-> 1, discriminator |-> 2]
    /\ pc' = "constructed"
    /\ UNCHANGED <<builder, args, tensors, joint, returned, num>>

(* The freeze of lines 199-201 left out. *)
build_gan_freeze_omitted ==
    /\ builder = "build_gan" /\ pc = "constructed"
    /\ pc' = "frozen"
    /\ UNCHANGED <<builder, args, models, trainable, locals, tensors, joint, returned, num>>

build_gan_freeze ==
    /\ builder = "build_gan" /\ pc = "constructed"
    /\ trainable' = SetTrainable(trainable, locals.discriminator, FALSE)
    /\ pc' = "frozen"
    /\ UNCHANGED <<builder, args, models, locals, tensors, joint, returned, num>>

(* generator_input, generator_layers, discriminator_layers_for_generator *)
GanGeneratorTensors(a, l) ==
    LET t1 == [generator_input |-> Input(<<a.latent_dim>>)]
        t2 == t1 @@ [generator_layers |-> Call(l.generator, "generator_input")]
        t3 == t2 @@ [discriminator_layers_for_generator |->
                         Call(l.discriminator, "generator_layers")]
    IN  t3

(* A sub-model call of lines 204-206 rejects its argument: the builder     *)
(* ends with the backend's exception.                                      *)
build_gan_raises ==
    /\ builder = "build_gan" /\ pc = "frozen"
    /\ ~Sound(models, GanGeneratorTensors(args, locals))
    /\ pc' = "raised"
    /\ UNCHANGED <<builder, args, models, trainable, locals, tensors, joint, returned, num>>

build_gan_generator_model ==
    /\ builder = "build_gan" /\ pc = "frozen"
    /\ Sound(models, GanGeneratorTensors(args, locals))
    /\ tensors' = GanGeneratorTensors(args, locals)
    /\ joint' = [generator_model |->
                    Model(<<"generator_input">>, <<"discriminator_layers_for_generator">>)]
    /\ pc' = "generator_wired"
    /\ UNCHANGED <<builder, args, models, trainable, locals, returned, num>>

build_gan_generator_compile ==
    /\ builder = "build_gan" /\ pc = "generator_wired"
    /\ LET g == AddLoss(joint.generator_model,
                        {KMean(1, "discriminator_layers_for_generator")})
       IN  joint' = [joint EXCEPT !.generator_model =
                        Compile(g, "optimizer_g", <<"None">>, tensors, models, trainable)]
    /\ pc' = "generator_compiled"
    /\ UNCHANGED <<builder, args, models, trainable, locals, tensors, returned, num>>

build_gan_unfreeze ==
    /\ builder = "build_gan" /\ pc = "generator_compiled"
    /\ trainable' = SetTrainable(SetTrainable(trainable, locals.discriminator, TRUE),
                                 locals.generator, FALSE)
    /\ pc' = "unfrozen"
    /\ UNCHANGED <<builder, args, models, locals, tensors, joint, returned, num>>

build_gan_discriminator_model ==
    /\ builder = "build_gan" /\ pc = "unfrozen"
    /\ LET t1 == tensors @@ [real_samples |-> Input(<<args.h, args.w, args.c>>),
                             generator_input_for_discriminator |->
                                 Input(<<args.latent_dim>>)]
           t2 == t1 @@ [generated_samples_for_discriminator |->
                            Call(locals.generator, "generator_input_for_discriminator")]
           t3 == t2 @@ [discriminator_output_from_generator |->
                            Call(locals.discriminator, "generated_samples_for_discriminator"),
                        discriminator_output_from_real_samples |->
                            Call(locals.discriminator, "real_samples")]
           t4 == t3 @@ [averaged_samples |->
                            Averaged("real_samples", "generated_samples_for_discriminator", t3)]
           t5 == t4 @@ [averaged_samples_out |-> Call(locals.discriminator, "averaged_samples")]
       IN  tensors' = t5
    /\ joint' = joint @@ [discriminator_model |->
                    Model(<<"real_samples", "generator_input_for_discriminator">>,
                          <<"discriminator_output_from_real_samples",
                            "discriminator_output_from_generator",
                            "averaged_samples_out">>)]
    /\ pc' = "discriminator_wired"
    /\ UNCHANGED <<builder, args, models, trainable, locals, returned, num>>

build_gan_discriminator_compile ==
    /\ builder = "build_gan" /\ pc = "discriminator_wired"
    /\ LET d == AddLoss(joint.discriminator_model,
                        CriticLoss("discriminator_output_from_real_samples",
                                   "discriminator_output_from_generator",
                                   "averaged_samples_out", "averaged_samples",
                                   args.GRADIENT_PENALTY_WEIGHT))
       IN  joint' = [joint EXCEPT !.discriminator_model =
                        Compile(d, "optimizer_d", <<"None">>, tensors, models, trainable)]
    /\ pc' = "discriminator_compiled"
    /\ UNCHANGED <<builder, args, models, trainable, locals, tensors, returned, num>>

build_gan_return ==
    /\ builder = "build_gan" /\ pc = "discriminator_compiled"
    /\ returned' = <<"generator_model", "discriminator_model", "generator", "discriminator">>
    /\ pc' = "returned"
    /\ UNCHANGED <<builder, args, models, trainable, locals, tensors, joint, num>>

build_gan ==
    \/ build_gan_construct
    \/ build_gan_freeze
    \/ build_gan_generator_model
    \/ build_gan_generator_compile
    \/ build_gan_unfreeze
    \/ build_gan_discriminator_model
    \/ build_gan_discriminator_compile
    \/ build_gan_return

----------------------------------------------------------------------------
(* wgangp_conditional *)

(* The generator built for latent_dim inputs, the condition forgotten. *)
wgangp_conditional_construct_unconditioned ==
    /\ builder = "wgangp_conditional" /\ pc = "start"
    /\ LET t_h == args.h \div Upsampling
           t_w == args.w \div Upsampling
           generator == residual_decoder(t_h, t_w, args.c, args.latent_dim, args.dropout)
           discriminator == residual_discriminator(args.h, args.w, args.c, args.dropout, 0)
           classifier == residual_discriminator(args.h, args.w, args.c, args.dropout,
                                                args.condition_dim)
       IN  /\ models' = <<generator, discriminator, classifier>>
           /\ trainable' = FreshAll(models')
           /\ locals' = [generator |-> 1, discriminator |-> 2, classifier |-> 3]
    /\ pc' = "constructed"
    /\ UNCHANGED <<builder, args, tensors, joint, returned, num>>

wgangp_conditional_construct ==
    /\ builder = "wgangp_conditional" /\ pc = "start"
    /\ LET t_h == args.h \div Upsampling
           t_w == args.w \div Upsampling
           generator == residual_decoder(t_h, t_w, args.c,
                                         args.latent_dim + args.condition_dim, args.dropout)
           discriminator == residual_discriminator(args.h, args.w, args.c, args.dropout, 0)
           classifier == residual_discriminator(args.h, args.w, args.c, args.dropout,
                                                args.condition_dim)
       IN  /\ models' = <<generator, discriminator, classifier>>
           /\ trainable' = FreshAll(models')
           /\ locals' = [generator |-> 1, discriminator |-> 2, classifier |-> 3]
    /\ pc' = "constructed"
    /\ UNCHANGED <<builder, args, tensors, joint, returned, num>>

wgangp_conditional_freeze ==
    /\ builder = "wgangp_conditional" /\ pc = "constructed"
    /\ trainable' = SetAllTrainable(trainable,
                                    <<locals.discriminator, locals.classifier>>, FALSE)
    /\ pc' = "frozen"
    /\ UNCHANGED <<builder, args, models, locals, tensors, joint, returned, num>>

(* generator_input, generator_layers, discriminator_layers_for_generator,   *)
(* classifier_layers_for_generator                                         *)
CondGeneratorTensors(a, l) ==
    LET t1 == [generator_input |-> Input(<<a.latent_dim + a.condition_dim>>)]
        t2 == t1 @@ [generator_layers |-> Call(l.generator, "generator_input")]
        t3 == t2 @@ [discriminator_layers_for_generator |->
                         Call(l.discriminator, "generator_layers"),
                     classifier_layers_for_generator |->
                         Call(l.classifier, "generator_layers")]
    IN  t3

(* A sub-model call of lines 427-430 rejects its argument. *)
wgangp_conditional_raises ==
    /\ builder = "wgangp_conditional" /\ pc = "frozen"
    /\ ~Sound(models, CondGeneratorTensors(args, locals))
    /\ pc' = "raised"
    /\ UNCHANGED <<builder, args, models, trainable, locals, tensors, joint, returned, num>>

wgangp_conditional_generator_model ==
    /\ builder = "wgangp_conditional" /\ pc = "frozen"
    /\ Sound(models, CondGeneratorTensors(args, locals))
    /\ tensors' = CondGeneratorTensors(args, locals)
    /\ joint' = [generator_model |->
                    Model(<<"generator_input">>,
                          <<"discriminator_layers_for_generator",
                            "classifier_layers_for_generator">>)]
    /\ pc' = "generator_wired"
    /\ UNCHANGED <<builder, args, models, trainable, locals, returned, num>>

(* generator_model compiled with the per-output losses in the wrong order. *)
wgangp_conditional_generator_compile_misordered ==
    /\ builder = "wgangp_conditional" /\ pc = "generator_wired"
    /\ LET g == AddLoss(joint.generator_model,
                        {KMean(1, "discriminator_layers_for_generator")})
       IN  joint' = [joint EXCEPT !.generator_model =
                        Compile(g, "optimizer_g", <<"categorical_crossentropy", "None">>,
                                tensors, models, trainable)]
    /\ pc' = "generator_compiled"
    /\ UNCHANGED <<builder, args, models, trainable, locals, tensors, returned, num>>

wgangp_conditional_generator_compile ==
    /\ builder = "wgangp_conditional" /\ pc = "generator_wired"
    /\ LET g == AddLoss(joint.generator_model,
                        {KMean(1, "discriminator_layers_for_generator")})
       IN  joint' = [joint EXCEPT !.generator_model =
                        Compile(g, "optimizer_g", <<"None", "categorical_crossentropy">>,
                                tensors, models, trainable)]
    /\ pc' = "generator_compiled"
    /\ UNCHANGED <<builder, args, models, trainable, locals, tensors, returned, num>>

wgangp_conditional_unfreeze ==
    /\ builder = "wgangp_conditional" /\ pc = "generator_compiled"
    /\ trainable' = SetTrainable(
                        SetAllTrainable(trainable,
                                        <<locals.discriminator, locals.classifier>>, TRUE),
                        locals.generator, FALSE)
    /\ pc' = "unfrozen"
    /\ UNCHANGED <<builder, args, models, locals, tensors, joint, returned, num>>

wgangp_conditional_discriminator_model ==
    /\ builder = "wgangp_conditional" /\ pc = "unfrozen"
    /\ LET t1 == tensors @@ [real_samples |-> Input(<<args.h, args.w, args.c>>),
                             generator_input_for_discriminator |->
                                 Input(<<args.latent_dim + args.condition_dim>>)]
           t2 == t1 @@ [generated_samples_for_discriminator |->
                            Call(locals.generator, "generator_input_for_discriminator")]
           t3 == t2 @@ [discriminator_output_from_generator |->
                            Call(locals.discriminator, "generated_samples_for_discriminator"),
                        discriminator_output_from_real_samples |->
                            Call(locals.discriminator, "real_samples"),
                        classifier_output_from_real_samples |->
                            Call(locals.classifier, "real_samples")]
           t4 == t3 @@ [averaged_samples |->
                            Averaged("real_samples", "generated_samples_for_discriminator", t3)]
           t5 == t4 @@ [averaged_samples_out |-> Call(locals.discriminator, "averaged_samples")]
       IN  tensors' = t5
    /\ joint' = joint @@ [discriminator_model |->
                    Model(<<"real_samples", "generator_input_for_discriminator">>,
                          <<"discriminator_output_from_real_samples",
                            "discriminator_output_from_generator",
                            "averaged_samples_out">>)]
    /\ pc' = "discriminator_wired"
    /\ UNCHANGED <<builder, args, models, trainable, locals, returned, num>>

wgangp_conditional_discriminator_compile ==
    /\ builder = "wgangp_conditional" /\ pc = "discriminator_wired"
    /\ LET d == AddLoss(joint.discriminator_model,
                        CriticLoss("discriminator_output_from_real_samples",
                                   "discriminator_output_from_generator",
                                   "averaged_samples_out", "averaged_samples",
                                   args.GRADIENT_PENALTY_WEIGHT))
       IN  joint' = [joint EXCEPT !.discriminator_model =
                        Compile(d, "optimizer_d", <<"None">>, tensors, models, trainable)]
    /\ pc' = "discriminator_compiled"
    /\ UNCHANGED <<builder, args, models, trainable, locals, tensors, returned, num>>

wgangp_conditional_classifier_model ==
    /\ builder = "wgangp_conditional" /\ pc = "discriminator_compiled"
    /\ LET c == Model(<<"real_samples">>, <<"classifier_output_from_real_samples">>)
       IN  joint' = joint @@ [classifier_model |->
                        Compile(c, "optimizer_c", <<"categorical_crossentropy">>,
                                tensors, models, trainable)]
    /\ pc' = "classifier_compiled"
    /\ UNCHANGED <<builder, args, models, trainable, locals, tensors, returned, num>>

wgangp_conditional_return ==
    /\ builder = "wgangp_conditional" /\ pc = "classifier_compiled"
    /\ returned' = <<"generator_model", "discriminator_model", "classifier_model",
                     "generator", "discriminator", "classifier">>
    /\ pc' = "returned"
    /\ UNCHANGED <<builder, args, models, trainable, locals, tensors, joint, num>>

wgangp_conditional ==
    \/ wgangp_conditional_construct
    \/ wgangp_conditional_freeze
    \/ wgangp_conditional_generator_model
    \/ wgangp_conditional_generator_compile
    \/ wgangp_conditional_unfreeze
    \/ wgangp_conditional_discriminator_model
    \/ wgangp_conditional_discriminator_compile
    \/ wgangp_conditional_classifier_model
    \/ wgangp_conditional_return

----------------------------------------------------------------------------
(* Steps build_cyclegan and build_cyclewgan share line for line            *)
(* (models.py 244-270 and 326-352, 277-308 and 359-387).                   *)

(* generator_B built with generator_A's channel arguments. *)
CycleSubModelsCopied(a) ==
    << residual_ae(a.h, a.w, a.c_A, a.c_B, a.dropout),
       residual_ae(a.h, a.w, a.c_A, a.c_B, a.dropout),
       residual_discriminator(a.h, a.w, a.c_A, a.dropout, 0),
       residual_discriminator(a.h, a.w, a.c_B, a.dropout, 0) >>

(* generator_A, generator_B, discriminator_A, discriminator_B *)
CycleSubModels(a) ==
    << residual_ae(a.h, a.w, a.c_A, a.c_B, a.dropout),
       residual_ae(a.h, a.w, a.c_B, a.c_A, a.dropout),
       residual_discriminator(a.h, a.w, a.c_A, a.dropout, 0),
       residual_discriminator(a.h, a.w, a.c_B, a.dropout, 0) >>

CycleLocals ==
    [generator_A |-> 1, generator_B |-> 2, discriminator_A |-> 3, discriminator_B |-> 4]

(* The tensors of generator_model. *)
CycleGeneratorTensors(a, l) ==
    LET t1 == [generator_A_input |-> Input(<<a.h, a.w, a.c_A>>),
               generator_B_input |-> Input(<<a.h, a.w, a.c_B>>)]
        t2 == t1 @@ [generator_A_layers |-> Call(l.generator_A, "generator_A_input"),
                     generator_B_layers |-> Call(l.generator_B, "generator_B_input")]
        t3 == t2 @@ [generator_AB_layers |-> Call(l.generator_B, "generator_A_layers"),
                     generator_BA_layers |-> Call(l.generator_A, "generator_B_layers")]
        t4 == t3 @@ [discriminator_B_layers_for_generator_A |->
                         Call(l.discriminator_B, "generator_A_layers"),
                     discriminator_A_layers_for_generator_A |->
                         Call(l.discriminator_A, "generator_AB_layers"),
                     discriminator_A_layers_for_generator_B |->
                         Call(l.discriminator_A, "generator_B_layers"),
                     discriminator_B_layers_for_generator_B |->
                         Call(l.discriminator_B, "generator_BA_layers")]
    IN  t4

CycleGeneratorModel ==
    Model(<<"generator_A_input", "generator_B_input">>,
          <<"discriminator_B_layers_for_generator_A",
            "discriminator_A_layers_for_generator_A",
            "discriminator_A_layers_for_generator_B",
            "discriminator_B_layers_for_generator_B">>)

(* The B -> A -> B round trip left out. *)
CyclicLossOneWay(w) ==
    { KMeanAbsDiff(w, "generator_A_input", "generator_AB_layers") }

(* cyclic_loss_w * (K.mean(K.abs(A - ABA)) + K.mean(K.abs(B - BAB))) *)
CyclicLoss(w) ==
    { KMeanAbsDiff(w, "generator_A_input", "generator_AB_layers"),
      KMeanAbsDiff(w, "generator_B_input", "generator_BA_layers") }

(* x - y of every cycle term is a subtraction the backend accepts. *)
Subtracts(ts, terms) ==
    \A t \in terms : Broadcasts(ts[t.a].shape, ts[t.b].shape)

(* The unfreeze of the discriminators without the freeze of the generators. *)
CycleUnfreezeOnly(tr, l) ==
    SetAllTrainable(tr, <<l.discriminator_A, l.discriminator_B>>, TRUE)

(* The unfreeze of both discriminators and the freeze of both generators. *)
CycleUnfreeze(tr, l) ==
    SetAllTrainable(SetAllTrainable(tr, <<l.discriminator_A, l.discriminator_B>>, TRUE),
                    <<l.generator_A, l.generator_B>>, FALSE)

(* The tensors the two discriminator models share in both builders. *)
CycleDiscriminatorTensors(a, l) ==
    LET t1 == [real_samples_A |-> Input(<<a.h, a.w, a.c_A>>),
               real_samples_B |-> Input(<<a.h, a.w, a.c_B>>),
               generator_A_input_for_discriminator_B |-> Input(<<a.h, a.w, a.c_A>>),
               generator_B_input_for_discriminator_A |-> Input(<<a.h, a.w, a.c_B>>)]
        t2 == t1 @@ [generated_samples_B_for_discriminator_B |->
                         Call(l.generator_A, "generator_A_input_for_discriminator_B"),
                     generated_samples_A_for_discriminator_A |->
                         Call(l.generator_B, "generator_B_input_for_discriminator_A")]
        t3 == t2 @@ [discriminator_B_output_from_generator_A |->
                         Call(l.discriminator_B, "generated_samples_B_for_discriminator_B"),
                     discriminator_B_output_from_real_samples_B |->
                         Call(l.discriminator_B, "real_samples_B"),
                     discriminator_A_output_from_generator_B |->
                         Call(l.discriminator_A, "generated_samples_A_for_discriminator_A"),
                     discriminator_A_output_from_real_samples_A |->
                         Call(l.discriminator_A, "real_samples_A")]
    IN  t3

CycleReturn ==
    <<"generator_model", "discriminator_A_model", "discriminator_B_model",
      "generator_A", "generator_B", "discriminator_A", "discriminator_B">>

----------------------------------------------------------------------------
(* build_cyclegan *)

build_cyclegan_construct ==
    /\ builder = "build_cyclegan" /\ pc = "start"
    /\ models' = CycleSubModels(args)
    /\ trainable' = FreshAll(models')
    /\ locals' = CycleLocals
    /\ pc' = "constructed"
    /\ UNCHANGED <<builder, args, tensors, joint, returned, num>>

build_cyclegan_freeze ==
    /\ builder = "build_cyclegan" /\ pc = "constructed"
    /\ trainable' = SetAllTrainable(trainable,
                                    <<locals.discriminator_A, locals.discriminator_B>>, FALSE)
    /\ pc' = "frozen"
    /\ UNCHANGED <<builder, args, models, locals, tensors, joint, returned, num>>

build_cyclegan_generator_model ==
    /\ builder = "build_cyclegan" /\ pc = "frozen"
    /\ tensors' = CycleGeneratorTensors(args, locals)
    /\ joint' = [generator_model |-> CycleGeneratorModel]
    /\ pc' = "generator_wired"
    /\ UNCHANGED <<builder, args, models, trainable, locals, returned, num>>

(* A subtraction of line 273 is between shapes that do not broadcast. *)
build_cyclegan_raises ==
    /\ builder = "build_cyclegan" /\ pc = "generator_wired"
    /\ ~Subtracts(tensors, CyclicLoss(args.cyclic_loss_w))
    /\ pc' = "raised"
    /\ UNCHANGED <<builder, args, models, trainable, locals, tensors, joint, returned, num>>

build_cyclegan_generator_compile ==
    /\ builder = "build_cyclegan" /\ pc = "generator_wired"
    /\ Subtracts(tensors, CyclicLoss(args.cyclic_loss_w))
    /\ LET g1 == AddLoss(joint.generator_model,
                         {HalfMeanSquare("discriminator_B_layers_for_generator_A", 0)})
           g2 == AddLoss(g1, {HalfMeanSquare("discriminator_A_layers_for_generator_B", 0)})
           g3 == AddLoss(g2, CyclicLoss(args.cyclic_loss_w))
       IN  joint' = [joint EXCEPT !.generator_model =
                        Compile(g3, "optimizer_g", <<"None">>, tensors, models, trainable)]
    /\ pc' = "generator_compiled"
    /\ UNCHANGED <<builder, args, models, trainable, locals, tensors, returned, num>>

build_cyclegan_unfreeze ==
    /\ builder = "build_cyclegan" /\ pc = "generator_compiled"
    /\ trainable' = CycleUnfreeze(trainable, locals)
    /\ pc' = "unfrozen"
    /\ UNCHANGED <<builder, args, models, locals, tensors, joint, returned, num>>

build_cyclegan_discriminator_models ==
    /\ builder = "build_cyclegan" /\ pc = "unfrozen"
    /\ tensors' = tensors @@ CycleDiscriminatorTensors(args, locals)
    /\ pc' = "discriminators_wired"
    /\ UNCHANGED <<builder, args, models, trainable, locals, joint, returned, num>>

build_cyclegan_discriminator_A_compile ==
    /\ builder = "build_cyclegan" /\ pc = "discriminators_wired"
    /\ LET m == Model(<<"real_samples_A", "generator_B_input_for_discriminator_A">>,
                      <<"discriminator_A_output_from_real_samples_A",
                        "discriminator_A_output_from_generator_B">>)
           d == AddLoss(m, { HalfMeanSquare("discriminator_A_output_from_real_samples_A", -1),
                             HalfMeanSquare("discriminator_A_output_from_generator_B", 1) })
       IN  joint' = joint @@ [discriminator_A_model |->
                        Compile(d, "optimizer_dA", <<"None">>, tensors, models, trainable)]
    /\ pc' = "discriminator_A_compiled"
    /\ UNCHANGED <<builder, args, models, trainable, locals, tensors, returned, num>>

build_cyclegan_discriminator_B_compile ==
    /\ builder = "build_cyclegan" /\ pc = "discriminator_A_compiled"
    /\ LET m == Model(<<"real_samples_B", "generator_A_input_for_discriminator_B">>,
                      <<"discriminator_B_output_from_real_samples_B",
                        "discriminator_B_output_from_generator_A">>)
           d == AddLoss(m, { HalfMeanSquare("discriminator_B_output_from_real_samples_B", -1),
                             HalfMeanSquare("discriminator_B_output_from_generator_A", 1) })
       IN  joint' = joint @@ [discriminator_B_model |->
                        Compile(d, "optimizer_dB", <<"None">>, tensors, models, trainable)]
    /\ pc' = "discriminator_B_compiled"
    /\ UNCHANGED <<builder, args, models, trainable, locals, tensors, returned, num>>

build_cyclegan_return ==
    /\ builder = "build_cyclegan" /\ pc = "discriminator_B_compiled"
    /\ returned' = CycleReturn
    /\ pc' = "returned"
    /\ UNCHANGED <<builder, args, models, trainable, locals, tensors, joint, num>>

build_cyclegan ==
    \/ build_cyclegan_construct
    \/ build_cyclegan_freeze
    \/ build_cyclegan_generator_model
    \/ build_cyclegan_generator_compile
    \/ build_cyclegan_unfreeze
    \/ build_cyclegan_discriminator_models
    \/ build_cyclegan_discriminator_A_compile
    \/ build_cyclegan_discriminator_B_compile
    \/ build_cyclegan_return

----------------------------------------------------------------------------
(* build_cyclewgan *)

build_cyclewgan_construct ==
    /\ builder = "build_cyclewgan" /\ pc = "start"
    /\ models' = CycleSubModels(args)
    /\ trainable' = FreshAll(models')
    /\ locals' = CycleLocals
    /\ pc' = "constructed"
    /\ UNCHANGED <<builder, args, tensors, joint, returned, num>>

build_cyclewgan_freeze ==
    /\ builder = "build_cyclewgan" /\ pc = "constructed"
    /\ trainable' = SetAllTrainable(trainable,
                                    <<locals.discriminator_A, locals.discriminator_B>>, FALSE)
    /\ pc' = "frozen"
    /\ UNCHANGED <<builder, args, models, locals, tensors, joint, returned, num>>

build_cyclewgan_generator_model ==
    /\ builder = "build_cyclewgan" /\ pc = "frozen"
    /\ tensors' = CycleGeneratorTensors(args, locals)
    /\ joint' = [generator_model |-> CycleGeneratorModel]
    /\ pc' = "generator_wired"
    /\ UNCHANGED <<builder, args, models, trainable, locals, returned, num>>

(* A subtraction of line 355 is between shapes that do not broadcast. *)
build_cyclewgan_raises ==
    /\ builder = "build_cyclewgan" /\ pc = "generator_wired"
    /\ ~Subtracts(tensors, CyclicLoss(args.cyclic_loss_w))
    /\ pc' = "raised"
    /\ UNCHANGED <<builder, args, models, trainable, locals, tensors, joint, returned, num>>

build_cyclewgan_generator_compile ==
    /\ builder = "build_cyclewgan" /\ pc = "generator_wired"
    /\ Subtracts(tensors, CyclicLoss(args.cyclic_loss_w))
    /\ LET g1 == AddLoss(joint.generator_model,
                         {KMean(1, "discriminator_B_layers_for_generator_A")})
           g2 == AddLoss(g1, {KMean(1, "discriminator_A_layers_for_generator_B")})
           g3 == AddLoss(g2, CyclicLoss(args.cyclic_loss_w))
       IN  joint' = [joint EXCEPT !.generator_model =
                        Compile(g3, "optimizer_g", <<"None">>, tensors, models, trainable)]
    /\ pc' = "generator_compiled"
    /\ UNCHANGED <<builder, args, models, trainable, locals, tensors, returned, num>>

build_cyclewgan_unfreeze ==
    /\ builder = "build_cyclewgan" /\ pc = "generator_compiled"
    /\ trainable' = CycleUnfreeze(trainable, locals)
    /\ pc' = "unfrozen"
    /\ UNCHANGED <<builder, args, models, locals, tensors, joint, returned, num>>

build_cyclewgan_discriminator_models ==
    /\ builder = "build_cyclewgan" /\ pc = "unfrozen"
    /\ LET t3 == tensors @@ CycleDiscriminatorTensors(args, locals)
           t4 == t3 @@ [averaged_samples_B |->
                            Averaged("real_samples_B",
                                     "generated_samples_B_for_discriminator_B", t3),
                        averaged_samples_A |->
                            Averaged("real_samples_A",
                                     "generated_samples_A_for_discriminator_A", t3)]
           t5 == t4 @@ [averaged_samples_B_out |->
                            Call(locals.discriminator_B, "averaged_samples_B"),
                        averaged_samples_A_out |->
                            Call(locals.discriminator_A, "averaged_samples_A")]
       IN  tensors' = t5
    /\ pc' = "discriminators_wired"
    /\ UNCHANGED <<builder, args, models, trainable, locals, joint, returned, num>>

build_cyclewgan_discriminator_A_compile ==
    /\ builder = "build_cyclewgan" /\ pc = "discriminators_wired"
    /\ LET m == Model(<<"real_samples_A", "generator_B_input_for_discriminator_A">>,
                      <<"discriminator_A_output_from_real_samples_A",
                        "discriminator_A_output_from_generator_B",
                        "averaged_samples_A_out">>)
           d == AddLoss(m, CriticLoss("discriminator_A_output_from_real_samples_A",
                                   "discriminator_A_output_from_generator_B",
                                   "averaged_samples_A_out", "averaged_samples_A",
                                   args.GRADIENT_PENALTY_WEIGHT))
       IN  joint' = joint @@ [discriminator_A_model |->
                        Compile(d, "optimizer_dA", <<"None">>, tensors, models, trainable)]
    /\ pc' = "discriminator_A_compiled"
    /\ UNCHANGED <<builder, args, models, trainable, locals, tensors, returned, num>>

build_cyclewgan_discriminator_B_compile ==
    /\ builder = "build_cyclewgan" /\ pc = "discriminator_A_compiled"
    /\ LET m == Model(<<"real_samples_B", "generator_A_input_for_discriminator_B">>,
                      <<"discriminator_B_output_from_real_samples_B",
                        "discriminator_B_output_from_generator_A",
                        "averaged_samples_B_out">>)
           d == AddLoss(m, CriticLoss("discriminator_B_output_from_real_samples_B",
                                   "discriminator_B_output_from_generator_A",
                                   "averaged_samples_B_out", "averaged_samples_B",
                                   args.GRADIENT_PENALTY_WEIGHT))
       IN  joint' = joint @@ [discriminator_B_model |->
                        Compile(d, "optimizer_dB", <<"None">>, tensors, models, trainable)]
    /\ pc' = "discriminator_B_compiled"
    /\ UNCHANGED <<builder, args, models, trainable, locals, tensors, returned, num>>

build_cyclewgan_return ==
    /\ builder = "build_cyclewgan" /\ pc = "discriminator_B_compiled"
    /\ returned' = CycleReturn
    /\ pc' = "returned"
    /\ UNCHANGED <<builder, args, models, trainable, locals, tensors, joint, num>>

build_cyclewgan ==
    \/ build_cyclewgan_construct
    \/ build_cyclewgan_freeze
    \/ build_cyclewgan_generator_model
    \/ build_cyclewgan_generator_compile
    \/ build_cyclewgan_unfreeze
    \/ build_cyclewgan_discriminator_models
    \/ build_cyclewgan_discriminator_A_compile
    \/ build_cyclewgan_discriminator_B_compile
    \/ build_cyclewgan_return

----------------------------------------------------------------------------
(* Numeric tensors: a shape and one integer per index.  Values are on an   *)
(* integer grid; a mean is kept as an exact fraction num/den.              *)

RECURSIVE Indices(_)
Indices(shape) ==
    IF shape = <<>> THEN { <<>> }
    ELSE { <<i>> \o r : i \in 1..Head(shape), r \in Indices(Tail(shape)) }

Tensors(shape, values) ==
    { [shape |-> shape, data |-> d] : d \in [Indices(shape) -> values] }

RECURSIVE Sigma(_, _)
Sigma(f, S) ==
    IF S = {} THEN 0
    ELSE LET x == CHOOSE y \in S : TRUE
         IN  f[x] + Sigma(f, S \ {x})

Abs(x) == IF x < 0 THEN -x ELSE x

(* The largest r with r*r <= n: exact on perfect squares. *)
ISqrt(n) == CHOOSE r \in 0..n : r * r <= n /\ (r + 1) * (r + 1) > n

(* np.arange(lo, hi) *)
arange(lo, hi) == { a \in lo..(hi - 1) : TRUE }

(* K.square(x) *)
KSquare(x) == [x EXCEPT !.data = [i \in DOMAIN x.data |-> x.data[i] * x.data[i]]]

(* The entries of idx at the positions whose (0-based) axis is not in axes. *)
RECURSIVE Project(_, _, _)
Project(idx, axes, axis) ==
    IF idx = <<>> THEN <<>>
    ELSE (IF axis \in axes THEN <<>> ELSE <<Head(idx)>>)
         \o Project(Tail(idx), axes, axis + 1)

(* K.sum(x, axis=axes): the axes are reduced away. *)
KSum(x, axes) ==
    LET shape == Project(x.shape, axes, 0)
    IN  [ shape |-> shape,
          data  |-> [ j \in Indices(shape) |->
                        Sigma(x.data, { i \in DOMAIN x.data : Project(i, axes, 0) = j }) ] ]

(* K.sqrt(x) *)
KSqrt(x) == [x EXCEPT !.data = [i \in DOMAIN x.data |-> ISqrt(x.data[i])]]

(* weight * K.square(1 - x) *)
Penalty(weight, x) ==
    [x EXCEPT !.data = [i \in DOMAIN x.data |-> weight * ((1 - x.data[i]) * (1 - x.data[i]))]]

(* K.mean(x) over every axis, as a fraction. *)
KMeanAll(x) == [num |-> Sigma(x.data, DOMAIN x.data), den |-> Cardinality(DOMAIN x.data)]

----------------------------------------------------------------------------
(* gradient_penalty_loss, one statement per step.  The value of            *)
(* K.gradients(y_pred, averaged_samples)[0] is an input: any tensor of the *)
(* shape of averaged_samples whose per-sample norm is on the grid.         *)

MaxBatch == 2
MaxGrad == 2

(* Per-sample shapes of averaged_samples (ranks 2 to 4 with the batch). *)
SampleShapes == { <<2>>, <<2, 1, 1>>, <<1, 1, 2>> }

PenaltyWeights == { 0, 1, GRADIENT_PENALTY_WEIGHT }

SampleOf(idx) == idx[1]

SumSquares(g, i) ==
    Sigma([ x \in DOMAIN g.data |-> g.data[x] * g.data[x] ],
          { x \in DOMAIN g.data : SampleOf(x) = i })

Gradients(b, sh) ==
    { g \in Tensors(<<b>> \o sh, (-MaxGrad)..MaxGrad) :
        \A i \in 1..b : ISqrt(SumSquares(g, i)) * ISqrt(SumSquares(g, i))
                          = SumSquares(g, i) }

gp_gradients_sqr ==
    /\ num.fn = "gradient_penalty_loss" /\ num.stage = "gradients"
    /\ num' = [stage |-> "gradients_sqr", gradients_sqr |-> KSquare(num.gradients)] @@ num
    /\ UNCHANGED buildVars

(* The sum taken over axis 1 alone. *)
gp_gradients_sqr_sum_axis1 ==
    /\ num.fn = "gradient_penalty_loss" /\ num.stage = "gradients_sqr"
    /\ num' = [stage |-> "gradients_sqr_sum",
               gradients_sqr_sum |-> KSum(num.gradients_sqr, {1})] @@ num
    /\ UNCHANGED buildVars

gp_gradients_sqr_sum ==
    /\ num.fn = "gradient_penalty_loss" /\ num.stage = "gradients_sqr"
    /\ num' = [stage |-> "gradients_sqr_sum",
               gradients_sqr_sum |->
                   KSum(num.gradients_sqr, arange(1, Len(num.gradients_sqr.shape)))] @@ num
    /\ UNCHANGED buildVars

gp_gradient_l2_norm ==
    /\ num.fn = "gradient_penalty_loss" /\ num.stage = "gradients_sqr_sum"
    /\ num' = [stage |-> "gradient_l2_norm",
               gradient_l2_norm |-> KSqrt(num.gradients_sqr_sum)] @@ num
    /\ UNCHANGED buildVars

gp_gradient_penalty ==
    /\ num.fn = "gradient_penalty_loss" /\ num.stage = "gradient_l2_norm"
    /\ num' = [stage |-> "gradient_penalty",
               gradient_penalty |->
                   Penalty(num.gradient_penalty_weight, num.gradient_l2_norm)] @@ num
    /\ UNCHANGED buildVars

gp_return ==
    /\ num.fn = "gradient_penalty_loss" /\ num.stage = "gradient_penalty"
    /\ num' = [stage |-> "returned", result |-> KMeanAll(num.gradient_penalty)] @@ num
    /\ UNCHANGED buildVars

gradient_penalty_loss ==
    \/ gp_gradients_sqr
    \/ gp_gradients_sqr_sum
    \/ gp_gradient_l2_norm
    \/ gp_gradient_penalty
    \/ gp_return

----------------------------------------------------------------------------
(* RandomWeightedAverage.  A weight is a number of the grid                *)
(* 0, 1/WeightLevels, ..., (WeightLevels-1)/WeightLevels of [0, 1); the    *)
(* output is kept in units of 1/WeightLevels.                              *)

WeightLevels == 3

(* Image shapes (h, w, c) of the two inputs. *)
ImageShapes == { <<2, 1, 1>>, <<1, 1, 2>> }

(* (real, generated) values of one element: below, above, equal. *)
ElementPairs == { <<-1, 1>>, <<1, 0>>, <<0, 0>> }

InputPairs(b, sh) ==
    { [input1 |-> [shape |-> <<b>> \o sh, data |-> [i \in DOMAIN d |-> d[i][1]]],
       input2 |-> [shape |-> <<b>> \o sh, data |-> [i \in DOMAIN d |-> d[i][2]]]] :
      d \in [Indices(<<b>> \o sh) -> ElementPairs] }

(* One weight per element: K.shape(input1). *)
WeightsShapePerElement(input1) == input1.shape

(* (K.shape(input1)[0], 1, 1, 1) *)
WeightsShape(input1) == <<input1.shape[1], 1, 1, 1>>

(* Broadcasting of same-rank tensors: an axis of length 1 is repeated. *)
At(x, idx) == x.data[[k \in 1..Len(idx) |-> IF x.shape[k] = 1 THEN 1 ELSE idx[k]]]

(* (weights * input1) + ((1 - weights) * input2) *)
WeightedAverage(weights, input1, input2) ==
    LET shape == BroadcastShape(weights.shape, BroadcastShape(input1.shape, input2.shape))
    IN  [ shape |-> shape,
          data  |-> [ i \in Indices(shape) |->
                        At(weights, i) * At(input1, i)
                        + (WeightLevels - At(weights, i)) * At(input2, i) ] ]

rwa_weights ==
    /\ num.fn = "RandomWeightedAverage" /\ num.stage = "inputs"
    /\ \E weights \in Tensors(WeightsShape(num.input1), 0..(WeightLevels - 1)) :
          num' = [stage |-> "weights", weights |-> weights] @@ num
    /\ UNCHANGED buildVars

rwa_return ==
    /\ num.fn = "RandomWeightedAverage" /\ num.stage = "weights"
    /\ num' = [stage |-> "returned",
               result |-> WeightedAverage(num.weights, num.input1, num.input2)] @@ num
    /\ UNCHANGED buildVars

RandomWeightedAverage ==
    \/ rwa_weights
    \/ rwa_return

----------------------------------------------------------------------------
(* The value of the cycle-consistency terms on one batch.  A feed gives    *)
(* the flattened values of the tensors the terms read.                     *)

CyclicWeights == { -1, 0, 1, cyclic_loss_w }

(* (input, round trip) values of one element: equal, below, above. *)
RoundTripPairs == { <<0, 0>>, <<1, 0>>, <<-1, 1>> }

PairSeqs == UNION { [1..n -> RoundTripPairs] : n \in {1, 2} }

Firsts(ps) == [i \in DOMAIN ps |-> ps[i][1]]

Seconds(ps) == [i \in DOMAIN ps |-> ps[i][2]]

Feeds ==
    { [ generator_A_input   |-> Firsts(pa),
        generator_AB_layers |-> Seconds(pa),
        generator_B_input   |-> Firsts(pb),
        generator_BA_layers |-> Seconds(pb) ] : pa \in PairSeqs, pb \in PairSeqs }

(* (num/den) * K.mean(K.abs(a - b)) *)
AbsDiffValue(t, feed) ==
    [ num |-> t.num * Sigma([i \in DOMAIN feed[t.a] |-> Abs(feed[t.a][i] - feed[t.b][i])],
                            DOMAIN feed[t.a]),
      den |-> t.den * Len(feed[t.a]) ]

RECURSIVE SumValues(_, _)
SumValues(ts, feed) ==
    IF ts = {} THEN [num |-> 0, den |-> 1]
    ELSE LET t == CHOOSE x \in ts : TRUE
             v == AbsDiffValue(t, feed)
             r == SumValues(ts \ {t}, feed)
         IN  [num |-> v.num * r.den + r.num * v.den, den |-> v.den * r.den]

AbsDiffTerms(j) == { t \in UNION Range(j.losses) : t.kind = "mean_abs_diff" }

evaluate_cyclic_loss ==
    /\ pc = "returned" /\ num.stage = "idle"
    /\ \E feed \in Feeds :
          num' = [ fn |-> "cyclic_loss", stage |-> "evaluated", feed |-> feed,
                   value |-> [j \in DOMAIN joint |->
                                 SumValues(AbsDiffTerms(joint[j]), feed)] ]
    /\ UNCHANGED buildVars

----------------------------------------------------------------------------
NumIdle == [fn |-> "", stage |-> "idle"]

Init ==
    /\ builder \in Builders
    /\ args \in ArgsOf(builder)
    /\ pc = "start"
    /\ models = <<>>
    /\ trainable = <<>>
    /\ locals = Empty
    /\ tensors = Empty
    /\ joint = Empty
    /\ returned = <<>>
    /\ num = NumIdle

Next ==
    \/ build_gan
    \/ build_cyclegan
    \/ build_cyclewgan
    \/ wgangp_conditional

Spec == Init /\ [][Next]_vars

(* No builder running: the numeric helpers are exercised on their own. *)
BuildIdle ==
    /\ builder = ""
    /\ args = Empty
    /\ pc = "idle"
    /\ models = <<>>
    /\ trainable = <<>>
    /\ locals = Empty
    /\ tensors = Empty
    /\ joint = Empty
    /\ returned = <<>>

InitGP ==
    /\ BuildIdle
    /\ \E b \in 1..MaxBatch, sh \in SampleShapes :
       \E g \in Gradients(b, sh), w \in PenaltyWeights :
          num = [fn |-> "gradient_penalty_loss", stage |-> "gradients",
                 gradients |-> g, gradient_penalty_weight |-> w]

SpecGP == InitGP /\ [][gradient_penalty_loss]_vars

InitRWA ==
    /\ BuildIdle
    /\ \E b \in 1..MaxBatch, sh \in ImageShapes :
       \E p \in InputPairs(b, sh) :
          num = [fn |-> "RandomWeightedAverage", stage |-> "inputs",
                 input1 |-> p.input1, input2 |-> p.input2]

SpecRWA == InitRWA /\ [][RandomWeightedAverage]_vars

(* The cycle builders called with any cyclic_loss_w on square images with  *)
(* c_A = c_B, then their cycle term evaluated.                             *)
InitCyc ==
    /\ builder \in {"build_cyclegan", "build_cyclewgan"}
    /\ \E a \in ArgsOf(builder), w \in CyclicWeights :
          /\ a.h = a.w /\ a.c_A = a.c_B /\ a.dropout
          /\ args = [a EXCEPT !.cyclic_loss_w = w]
    /\ pc = "start"
    /\ models = <<>>
    /\ trainable = <<>>
    /\ locals = Empty
    /\ tensors = Empty
    /\ joint = Empty
    /\ returned = <<>>
    /\ num = NumIdle

NextCyc ==
    \/ build_cyclegan
    \/ build_cyclewgan
    \/ evaluate_cyclic_loss

SpecCyc == InitCyc /\ [][NextCyc]_vars

----------------------------------------------------------------------------
(* The builders and residual_discriminator called with image sizes of any  *)
(* height and width, the ones the sub-models do not fit included.          *)

MaxSize == 17

(* Every size up to MaxSize, and the sizes around the second multiple of   *)
(* the generator's upsampling factor.                                      *)
AnySizes == 1..MaxSize \cup {2 * Upsampling - 1, 2 * Upsampling, 2 * Upsampling + 1}

(* residual_discriminator called on its own: as_classifier of either sign. *)
DiscriminatorArgs ==
    { [h |-> h, w |-> w, c |-> c, dropout |-> d, as_classifier |-> n] :
      h \in AnySizes, w \in AnySizes, c \in 1..MaxChannels, d \in BOOLEAN,
      n \in (-1)..MaxCond }

(* The arguments of ArgsOf with h and w of any size. *)
SizedArgs(b) ==
    IF b = "residual_discriminator" THEN DiscriminatorArgs
    ELSE { [a EXCEPT !.h = h, !.w = w] :
           a \in ArgsOf(b), h \in AnySizes, w \in AnySizes }

call_residual_discriminator ==
    /\ builder = "residual_discriminator" /\ pc = "start"
    /\ models' = << residual_discriminator(args.h, args.w, args.c, args.dropout,
                                           args.as_classifier) >>
    /\ trainable' = FreshAll(models')
    /\ returned' = <<"model">>
    /\ pc' = "returned"
    /\ UNCHANGED <<builder, args, locals, tensors, joint, num>>

InitSizes ==
    /\ builder \in Builders \cup {"residual_discriminator"}
    /\ args \in SizedArgs(builder)
    /\ pc = "start"
    /\ models = <<>>
    /\ trainable = <<>>
    /\ locals = Empty
    /\ tensors = Empty
    /\ joint = Empty
    /\ returned = <<>>
    /\ num = NumIdle

NextSizes ==
    \/ build_gan
    \/ build_gan_raises
    \/ build_cyclegan
    \/ build_cyclegan_raises
    \/ build_cyclewgan
    \/ build_cyclewgan_raises
    \/ wgangp_conditional
    \/ wgangp_conditional_raises
    \/ call_residual_discriminator

SpecSizes == InitSizes /\ [][NextSizes]_vars


----------------------------------------------------------------------------
(* Vocabulary of the properties. *)

Has(j) == j \in DOMAIN joint /\ joint[j].compiled

IsGenerator(m) == m.fn \in {"residual_decoder", "residual_ae"}

IsCritic(m) == m.fn = "residual_discriminator"

(* Every layer flag of sub-model i in the flag table tr equals v. *)
AllLayers(tr, i, v) == \A k \in DOMAIN tr[i].layers : tr[i].layers[k] = v

(* The joint models other than generator_model, and the sub-model each     *)
(* one trains.                                                             *)
Own ==
    [ discriminator_model   |-> "discriminator",
      discriminator_A_model |-> "discriminator_A",
      discriminator_B_model |-> "discriminator_B",
      classifier_model      |-> "classifier" ]

WeightsOf(i) == { <<i, k>> : k \in { x \in DOMAIN models[i].layers :
                                        models[i].layers[x] \in WeightedKinds } }

----------------------------------------------------------------------------
(* C1: in every builder, when generator_model is compiled every layer of   *)
(* every discriminator and of the classifier is frozen and every generator *)
(* layer is trainable; when a discriminator model or classifier_model is   *)
(* compiled every discriminator/classifier layer is trainable and every    *)
(* generator layer is frozen; and no discriminator or classifier layer     *)
(* goes from frozen to trainable before generator_model is compiled.       *)

C1_FlagsAtCompile ==
    \A j \in DOMAIN joint : joint[j].compiled =>
        \A i \in DOMAIN models :
            /\ IsCritic(models[i]) => AllLayers(joint[j].flags, i, j # "generator_model")
            /\ IsGenerator(models[i]) => AllLayers(joint[j].flags, i, j = "generator_model")

C1_Unfreezes ==
    \E i \in DOMAIN trainable :
        /\ IsCritic(models[i])
        /\ \E k \in DOMAIN trainable[i].layers :
              ~trainable[i].layers[k] /\ trainable'[i].layers[k]

C1_SelectiveFreeze ==
    /\ []C1_FlagsAtCompile
    /\ [][C1_Unfreezes => Has("generator_model")]_vars

C1_Witness ==
    /\ pc = "returned"
    /\ builder = "wgangp_conditional"
    /\ Has("generator_model") /\ Has("discriminator_model") /\ Has("classifier_model")
    /\ AllLayers(joint.generator_model.flags, locals.classifier, FALSE)
    /\ AllLayers(joint.classifier_model.flags, locals.classifier, TRUE)

----------------------------------------------------------------------------
(* C2: the sub-models are constructed once each and shared: the sub-models *)
(* called inside generator_model are exactly the ones called inside the    *)
(* other joint models and exactly the ones returned.  The weights a joint  *)
(* model collects at compile time are generator weights for                *)
(* generator_model and the weights of its own discriminator (classifier)   *)
(* for every other joint model, and no weight is collected twice.          *)

ReturnedSubModels == { locals[n] : n \in Range(returned) \cap DOMAIN locals }

C2_Shared ==
    /\ Cardinality(DOMAIN locals) = Len(models)
    /\ \A a, b \in DOMAIN locals : locals[a] = locals[b] => a = b
    /\ \A j \in DOMAIN joint : SubModels(joint[j], tensors) \subseteq DOMAIN models
    /\ pc = "returned" =>
          /\ SubModels(joint.generator_model, tensors) = DOMAIN models
          /\ UNION { SubModels(joint[j], tensors) : j \in DOMAIN joint \ {"generator_model"} }
                = DOMAIN models
          /\ ReturnedSubModels = DOMAIN models
          /\ Range(returned) \ DOMAIN locals = DOMAIN joint

C2_Weights ==
    \A j \in DOMAIN joint : joint[j].compiled =>
        /\ j = "generator_model" =>
              \A wt \in joint[j].collected : IsGenerator(models[wt[1]])
        /\ j # "generator_model" =>
              joint[j].collected \subseteq WeightsOf(locals[Own[j]])
        /\ \A j2 \in DOMAIN joint \ {j} :
              joint[j2].compiled => joint[j].collected \cap joint[j2].collected = {}

C2_SharedInstances == C2_Shared /\ C2_Weights

C2_Witness ==
    /\ pc = "returned"
    /\ builder = "build_cyclegan"
    /\ args.c_A # args.c_B
    /\ \A j \in DOMAIN joint : joint[j].collected # {}
    /\ joint.discriminator_A_model.collected = WeightsOf(locals.discriminator_A)

----------------------------------------------------------------------------
(* More vocabulary: the loss terms of a joint model and what a tensor is   *)
(* computed from.                                                          *)

Terms(j) == UNION Range(joint[j].losses)

IsCall(t, m, x) ==
    tensors[t].op = "call" /\ tensors[t].model = m /\ tensors[t].args = <<x>>

RECURSIVE Expr(_)
Expr(t) ==
    CASE tensors[t].op = "Input" -> <<"Input", tensors[t].shape>>
      [] tensors[t].op = "call"  -> <<"call", tensors[t].model, Expr(tensors[t].args[1])>>
      [] OTHER -> <<"average", Expr(tensors[t].args[1]), Expr(tensors[t].args[2])>>

Channels(shape) == shape[Len(shape)]

WassersteinBuilders == {"build_gan", "build_cyclewgan", "wgangp_conditional"}

CycleBuilders == {"build_cyclegan", "build_cyclewgan"}

(* The joint models that train a critic. *)
CriticModels == { j \in DOMAIN joint : j \notin {"generator_model", "classifier_model"} }

----------------------------------------------------------------------------
(* C3: in every WGAN-GP builder each discriminator model has one gradient  *)
(* penalty term; it differentiates the output of the model's own           *)
(* discriminator X on averaged_samples with respect to that same           *)
(* averaged_samples tensor, which is the RandomWeightedAverage of the real *)
(* input and the generated samples that the model also feeds to X.  In     *)
(* build_cyclewgan discriminator_A is paired with real A and generator_B's *)
(* output, discriminator_B with real B and generator_A's output.           *)

PenaltyTerms(j) == { t \in Terms(j) : t.kind = "gradient_penalty" }

C3_TermWired(j, g) ==
    LET X    == locals[Own[j]]
        avg  == g.b
        real == tensors[avg].args[1]
        fake == tensors[avg].args[2]
    IN  /\ avg \in DOMAIN tensors
        /\ g.a \in DOMAIN tensors
        /\ IsCall(g.a, X, avg)
        /\ tensors[avg].op = "RandomWeightedAverage"
        /\ tensors[real].op = "Input"
        /\ real \in Range(joint[j].inputs)
        /\ tensors[fake].op = "call"
        /\ IsGenerator(models[tensors[fake].model])
        /\ tensors[real].shape = models[X].input_shape
        /\ tensors[fake].shape = models[X].input_shape
        /\ \E o \in Range(joint[j].outputs) : IsCall(o, X, real)
        /\ \E o \in Range(joint[j].outputs) : IsCall(o, X, fake)
        /\ g.a \in Range(joint[j].outputs)
        /\ builder = "build_cyclewgan" /\ j = "discriminator_A_model" =>
              /\ X = locals.discriminator_A
              /\ real = "real_samples_A"
              /\ tensors[fake].model = locals.generator_B
        /\ builder = "build_cyclewgan" /\ j = "discriminator_B_model" =>
              /\ X = locals.discriminator_B
              /\ real = "real_samples_B"
              /\ tensors[fake].model = locals.generator_A

C3_PenaltyAtInterpolates ==
    builder \in WassersteinBuilders =>
        \A j \in DOMAIN joint : joint[j].compiled =>
            /\ j \in CriticModels =>
                  /\ Cardinality(PenaltyTerms(j)) = 1
                  /\ \A g \in PenaltyTerms(j) : C3_TermWired(j, g)
            /\ j \notin CriticModels => PenaltyTerms(j) = {}

C3_Witness ==
    /\ pc = "returned"
    /\ builder = "build_cyclewgan"
    /\ args.c_A # args.c_B
    /\ PenaltyTerms("discriminator_A_model") # {}
    /\ PenaltyTerms("discriminator_B_model") # {}

----------------------------------------------------------------------------
(* C6: build_cyclegan and build_cyclewgan build two generators and two     *)
(* discriminators; every sub-model is called on tensors with the channel   *)
(* count it was built for (generator_A on c_A giving c_B, generator_B on   *)
(* c_B giving c_A, discriminator_A on c_A, discriminator_B on c_B); the    *)
(* round trips have the channels of their inputs, so each cycle-loss       *)
(* subtraction is between tensors of equal channel count.                  *)

C6_CallConsistent(t) ==
    LET m  == tensors[t].model
        x  == tensors[t].args[1]
        ci == Channels(tensors[x].shape)
        co == Channels(tensors[t].shape)
    IN  /\ ci = Channels(models[m].input_shape)
        /\ m = locals.generator_A => ci = args.c_A /\ co = args.c_B
        /\ m = locals.generator_B => ci = args.c_B /\ co = args.c_A
        /\ m = locals.discriminator_A => ci = args.c_A
        /\ m = locals.discriminator_B => ci = args.c_B

C6_ChannelConsistent ==
    builder \in CycleBuilders /\ pc # "start" =>
        /\ Cardinality({ i \in DOMAIN models : IsGenerator(models[i]) }) = 2
        /\ Cardinality({ i \in DOMAIN models : IsCritic(models[i]) }) = 2
        /\ \A t \in DOMAIN tensors : tensors[t].op = "call" => C6_CallConsistent(t)
        /\ "generator_AB_layers" \in DOMAIN tensors =>
              /\ Channels(tensors.generator_AB_layers.shape) = args.c_A
              /\ Channels(tensors.generator_BA_layers.shape) = args.c_B
        /\ \A j \in DOMAIN joint : \A t \in Terms(j) :
              t.kind = "mean_abs_diff" =>
                  Channels(tensors[t.a].shape) = Channels(tensors[t.b].shape)

C6_Witness ==
    /\ pc = "returned"
    /\ builder \in CycleBuilders
    /\ args.c_A # args.c_B
    /\ \E t \in Terms("generator_model") : t.kind = "mean_abs_diff"
    /\ Cardinality({ t \in DOMAIN tensors : tensors[t].op = "call" }) >= 10

----------------------------------------------------------------------------
(* C8: in the Wasserstein builders the mean discriminator output on        *)
(* generated samples has coefficient +1 in generator_model's loss and -1   *)
(* in the loss of that discriminator's model, the mean discriminator       *)
(* output on real samples has coefficient +1 in the discriminator model's  *)
(* loss, and no discriminator output on real samples is in                 *)
(* generator_model's loss.                                                 *)

MeanTerms(j) == { t \in Terms(j) : t.kind = "mean" }

OnGenerated(t, X) ==
    /\ tensors[t].op = "call" /\ tensors[t].model = X
    /\ LET x == tensors[t].args[1]
       IN  /\ tensors[x].op = "call"
           /\ IsGenerator(models[tensors[x].model])
           /\ tensors[tensors[x].args[1]].op = "Input"

OnReal(t, X) ==
    /\ tensors[t].op = "call" /\ tensors[t].model = X
    /\ tensors[tensors[t].args[1]].op = "Input"

C8_Critic(j) ==
    LET X == locals[Own[j]]
    IN  /\ Cardinality(MeanTerms(j)) = 2
        /\ \E tf \in MeanTerms(j) :
              /\ tf.num = -1 /\ tf.den = 1
              /\ OnGenerated(tf.a, X)
              /\ \E tg \in MeanTerms("generator_model") :
                    tg.num = 1 /\ tg.den = 1 /\ Expr(tg.a) = Expr(tf.a)
        /\ \E tr \in MeanTerms(j) :
              tr.num = 1 /\ tr.den = 1 /\ OnReal(tr.a, X)

C8_Adversarial ==
    builder \in WassersteinBuilders /\ pc = "returned" =>
        /\ CriticModels # {}
        /\ \A j \in CriticModels : C8_Critic(j)
        /\ Cardinality(MeanTerms("generator_model")) = Cardinality(CriticModels)
        /\ \A t \in Terms("generator_model") :
              /\ \A X \in DOMAIN models : ~OnReal(t.a, X)
              /\ t.b # "" => \A X \in DOMAIN models : ~OnReal(t.b, X)

C8_Witness ==
    /\ pc = "returned"
    /\ builder = "build_cyclewgan"
    /\ Cardinality(MeanTerms("generator_model")) = 2
    /\ Cardinality(MeanTerms("discriminator_A_model")) = 2

----------------------------------------------------------------------------
(* C9: the noise vector has the latent dimension wherever it is used: the  *)
(* generator's own input, generator_model's input and the noise input of   *)
(* discriminator_model all have length latent_dim in build_gan and         *)
(* latent_dim + condition_dim in wgangp_conditional.                       *)

NoiseLength ==
    IF builder = "build_gan" THEN args.latent_dim
    ELSE args.latent_dim + args.condition_dim

C9_LatentDim ==
    builder \in {"build_gan", "wgangp_conditional"} =>
        /\ pc # "start" => models[locals.generator].input_shape = <<NoiseLength>>
        /\ "generator_model" \in DOMAIN joint =>
              /\ Len(joint.generator_model.inputs) = 1
              /\ tensors[joint.generator_model.inputs[1]] = Input(<<NoiseLength>>)
              /\ \A t \in DOMAIN tensors :
                    tensors[t].op = "call" /\ tensors[t].model = locals.generator =>
                        tensors[tensors[t].args[1]].shape = <<NoiseLength>>
        /\ "discriminator_model" \in DOMAIN joint =>
              /\ Len(joint.discriminator_model.inputs) = 2
              /\ tensors[joint.discriminator_model.inputs[2]] = Input(<<NoiseLength>>)
              /\ IsCall("generated_samples_for_discriminator", locals.generator,
                        joint.discriminator_model.inputs[2])

C9_Witness ==
    /\ pc = "returned"
    /\ builder = "wgangp_conditional"
    /\ args.latent_dim = MaxLatent /\ args.condition_dim = MaxCond
    /\ tensors.generator_input_for_discriminator.shape = <<MaxLatent + MaxCond>>

----------------------------------------------------------------------------
(* C10: in wgangp_conditional the classifier ends in a softmax of length   *)
(* condition_dim; generator_model has two outputs, the discriminator's     *)
(* with no per-output loss (its term is the added mean) and the            *)
(* classifier's on generated samples with categorical cross-entropy;       *)
(* classifier_model takes the real samples alone and is compiled with      *)
(* categorical cross-entropy; discriminator_model's loss has no            *)
(* classification term.                                                    *)

C10_Generator ==
    LET g  == joint.generator_model
        o1 == g.outputs[1]
        o2 == g.outputs[2]
    IN  /\ Len(g.outputs) = 2
        /\ OnGenerated(o1, locals.discriminator)
        /\ OnGenerated(o2, locals.classifier)
        /\ tensors[o2].shape = <<args.condition_dim>>
        /\ g.compiled =>
              /\ g.loss = <<"None", "categorical_crossentropy">>
              /\ Terms("generator_model") = {KMean(1, o1)}

C10_Classifier ==
    LET k == joint.classifier_model
    IN  /\ k.inputs = <<"real_samples">>
        /\ tensors.real_samples = Input(<<args.h, args.w, args.c>>)
        /\ Len(k.outputs) = 1
        /\ IsCall(k.outputs[1], locals.classifier, "real_samples")
        /\ k.loss = <<"categorical_crossentropy">>
        /\ k.losses = <<>>

C10_Discriminator ==
    LET d == joint.discriminator_model
    IN  /\ locals.classifier \notin SubModels(d, tensors)
        /\ d.compiled =>
              /\ \A i \in DOMAIN d.loss : d.loss[i] = "None"
              /\ \A t \in Terms("discriminator_model") :
                    \A x \in {t.a, t.b} \ {""} : tensors[x].model # locals.classifier

C10_ClassificationLoss ==
    builder = "wgangp_conditional" =>
        /\ pc # "start" =>
              /\ models[locals.classifier].output_shape = <<args.condition_dim>>
              /\ models[locals.classifier].activation = "softmax"
        /\ "generator_model" \in DOMAIN joint => C10_Generator
        /\ "discriminator_model" \in DOMAIN joint => C10_Discriminator
        /\ "classifier_model" \in DOMAIN joint => C10_Classifier

C10_Witness ==
    /\ pc = "returned"
    /\ builder = "wgangp_conditional"
    /\ args.condition_dim = MaxCond
    /\ Has("classifier_model") /\ Has("generator_model") /\ Has("discriminator_model")

----------------------------------------------------------------------------
(* C4: gradient_penalty_loss computes one norm per sample, the root of the *)
(* squared gradient summed over all non-batch axes, and returns the batch  *)
(* mean of gradient_penalty_weight * (1 - norm)^2; for a positive weight   *)
(* the result is non-negative, and zero exactly when every sample's norm   *)
(* is 1.                                                                   *)

BatchOf(g) == g.shape[1]

C4_Norms ==
    num.stage \in {"gradient_l2_norm", "gradient_penalty", "returned"} =>
        LET g == num.gradients
            n == num.gradient_l2_norm
        IN  /\ n.shape = <<BatchOf(g)>>
            /\ \A i \in 1..BatchOf(g) :
                  /\ n.data[<<i>>] >= 0
                  /\ n.data[<<i>>] * n.data[<<i>>] = SumSquares(g, i)

C4_Result ==
    num.stage = "returned" =>
        LET g == num.gradients
            w == num.gradient_penalty_weight
            n == [i \in 1..BatchOf(g) |-> ISqrt(SumSquares(g, i))]
            p == [i \in 1..BatchOf(g) |-> w * (1 - n[i]) * (1 - n[i])]
        IN  /\ num.result.den = BatchOf(g)
            /\ num.result.num = Sigma(p, 1..BatchOf(g))
            /\ w > 0 =>
                  /\ num.result.num >= 0
                  /\ num.result.num = 0 <=> \A i \in 1..BatchOf(g) : SumSquares(g, i) = 1

C4_GradientPenalty ==
    num.fn = "gradient_penalty_loss" => C4_Norms /\ C4_Result

C4_Witness ==
    /\ num.fn = "gradient_penalty_loss"
    /\ num.stage = "returned"
    /\ num.gradients.shape = <<2, 1, 1, 2>>
    /\ num.gradient_penalty_weight = GRADIENT_PENALTY_WEIGHT
    /\ num.result.num = GRADIENT_PENALTY_WEIGHT
    /\ num.gradient_l2_norm.data[<<1>>] = 1
    /\ num.gradient_l2_norm.data[<<2>>] = 2

----------------------------------------------------------------------------
(* C5: RandomWeightedAverage draws one weight per sample, of shape         *)
(* (batch, 1, 1, 1) and in [0, 1), and returns for every sample i          *)
(* weights[i]*input1[i] + (1 - weights[i])*input2[i]: all elements of a    *)
(* sample share one coefficient and every element of the result lies       *)
(* between the corresponding elements of the two inputs.                   *)

Least(a, b) == IF a < b THEN a ELSE b

Greatest(a, b) == IF a < b THEN b ELSE a

C5_Average ==
    num.fn = "RandomWeightedAverage" /\ num.stage = "returned" =>
        LET a == num.input1
            b == num.input2
            r == num.result
        IN  /\ num.weights.shape = <<BatchOf(a), 1, 1, 1>>
            /\ \A i \in DOMAIN num.weights.data :
                  0 <= num.weights.data[i] /\ num.weights.data[i] < WeightLevels
            /\ r.shape = a.shape
            /\ \A s \in 1..BatchOf(a) :
                  \E w \in 0..(WeightLevels - 1) :
                      \A i \in { x \in DOMAIN a.data : SampleOf(x) = s } :
                          r.data[i] = w * a.data[i] + (WeightLevels - w) * b.data[i]
            /\ \A i \in DOMAIN a.data :
                  /\ WeightLevels * Least(a.data[i], b.data[i]) <= r.data[i]
                  /\ r.data[i] <= WeightLevels * Greatest(a.data[i], b.data[i])

C5_Witness ==
    /\ num.fn = "RandomWeightedAverage"
    /\ num.stage = "returned"
    /\ num.input1.shape = <<2, 1, 1, 2>>
    /\ num.weights.data[<<1, 1, 1, 1>>] = 1
    /\ num.weights.data[<<2, 1, 1, 1>>] = 2
    /\ \A i \in DOMAIN num.input1.data : num.input1.data[i] # num.input2.data[i]
    /\ num.result.data[<<1, 1, 1, 1>>] # num.result.data[<<2, 1, 1, 1>>]

----------------------------------------------------------------------------
(* C7: in build_cyclegan and build_cyclewgan the cycle term of             *)
(* generator_model is cyclic_loss_w * (mean|A - generator_B(generator_A(A))| *)
(* + mean|B - generator_A(generator_B(B))|); it is non-negative for        *)
(* cyclic_loss_w >= 0, for cyclic_loss_w # 0 it is zero exactly when both  *)
(* round trips reproduce their input, and no discriminator model's loss    *)
(* contains it.                                                            *)

AbsDiffSum(feed, a, b) ==
    Sigma([i \in DOMAIN feed[a] |-> Abs(feed[a][i] - feed[b][i])], DOMAIN feed[a])

C7_RoundTrips ==
    /\ Expr("generator_AB_layers")
          = <<"call", locals.generator_B,
              <<"call", locals.generator_A, Expr("generator_A_input")>>>>
    /\ Expr("generator_BA_layers")
          = <<"call", locals.generator_A,
              <<"call", locals.generator_B, Expr("generator_B_input")>>>>

C7_Value ==
    LET f  == num.feed
        v  == num.value.generator_model
        sA == AbsDiffSum(f, "generator_A_input", "generator_AB_layers")
        sB == AbsDiffSum(f, "generator_B_input", "generator_BA_layers")
        nA == Len(f.generator_A_input)
        nB == Len(f.generator_B_input)
    IN  /\ v.den > 0
        /\ v.num * (nA * nB) = args.cyclic_loss_w * (sA * nB + sB * nA) * v.den
        /\ args.cyclic_loss_w >= 0 => v.num >= 0

C7_Reproduced ==
    /\ num.feed.generator_A_input = num.feed.generator_AB_layers
    /\ num.feed.generator_B_input = num.feed.generator_BA_layers

C7_GeneratorOnly ==
    \A j \in DOMAIN joint \ {"generator_model"} : AbsDiffTerms(joint[j]) = {}

C7_CyclicLoss ==
    num.stage = "evaluated" =>
        /\ C7_RoundTrips
        /\ C7_Value
        /\ args.cyclic_loss_w # 0 => (num.value.generator_model.num = 0 <=> C7_Reproduced)
        /\ C7_GeneratorOnly

(* The claim as written: zero exactly when both round trips reproduce      *)
(* their input, whatever cyclic_loss_w is.                                 *)
C7_AsWritten ==
    num.stage = "evaluated" =>
        /\ C7_RoundTrips
        /\ C7_Value
        /\ num.value.generator_model.num = 0 <=> C7_Reproduced
        /\ C7_GeneratorOnly

C7_Witness ==
    /\ num.stage = "evaluated"
    /\ builder = "build_cyclewgan"
    /\ args.cyclic_loss_w = cyclic_loss_w
    /\ num.feed.generator_A_input = num.feed.generator_AB_layers
    /\ num.feed.generator_B_input # num.feed.generator_BA_layers
    /\ Len(num.feed.generator_B_input) = 2
    /\ num.value.generator_model.num > 0

----------------------------------------------------------------------------
(* C11: residual_discriminator returns a model with one linear output per  *)
(* sample whenever as_classifier <= 0 and a softmax of exactly             *)
(* as_classifier entries whenever as_classifier > 0; in the four builders  *)
(* every discriminator is built with as_classifier = 0, every output that  *)
(* enters an adversarial loss term comes from such a discriminator, and    *)
(* the one sub-model built with as_classifier > 0 is the classifier of     *)
(* wgangp_conditional, built with as_classifier = condition_dim.           *)

Discriminators == { i \in DOMAIN models : models[i].fn = "residual_discriminator" }

AdversarialKinds == {"mean", "mean_square", "gradient_penalty"}

C11_Output(m) ==
    /\ m.as_classifier <= 0 => m.output_shape = <<1>> /\ m.activation = "linear"
    /\ m.as_classifier > 0 =>
          m.output_shape = <<m.as_classifier>> /\ m.activation = "softmax"

C11_Built ==
    builder \in Builders =>
        \A i \in Discriminators :
            IF builder = "wgangp_conditional" /\ i = locals.classifier
            THEN /\ models[i].as_classifier = args.condition_dim
                 /\ models[i].as_classifier > 0
            ELSE models[i].as_classifier = 0

C11_Critics ==
    \A j \in DOMAIN joint : \A t \in Terms(j) :
        t.kind \in AdversarialKinds =>
            /\ tensors[t.a].op = "call"
            /\ tensors[t.a].model \in Discriminators
            /\ models[tensors[t.a].model].as_classifier = 0
            /\ tensors[t.a].shape = <<1>>

C11_CriticOrClassifier ==
    /\ \A i \in Discriminators : C11_Output(models[i])
    /\ C11_Built
    /\ C11_Critics

C11_Witness ==
    /\ builder = "wgangp_conditional" /\ pc = "returned"
    /\ args.condition_dim > 1
    /\ models[locals.classifier].output_shape = <<args.condition_dim>>
    /\ models[locals.classifier].activation = "softmax"
    /\ models[locals.discriminator].output_shape = <<1>>
    /\ models[locals.discriminator].activation = "linear"
    /\ \E t \in Terms("discriminator_model") : t.kind = "gradient_penalty"

----------------------------------------------------------------------------
(* C12: in build_gan and wgangp_conditional the generator is built from    *)
(* t_h = h \div 16, t_w = w \div 16 and has three bilinear x2 steps and    *)
(* one PixelShuffler x2 step, so it outputs (16*(h \div 16),               *)
(* 16*(w \div 16), c); that is the discriminator's declared input          *)
(* (h, w, c) exactly when h and w are multiples of 16 and at least 16.     *)
(* For any other h or w the generated and the real samples differ in       *)
(* shape: the discriminator rejects the generated samples, no generated    *)
(* sample is ever averaged with a real one, and the builder does not       *)
(* return.                                                                 *)

NoiseBuilders == {"build_gan", "wgangp_conditional"}

Count(layers, kind) == Cardinality({ k \in DOMAIN layers : layers[k] = kind })

Fits16 ==
    /\ args.h % 16 = 0 /\ args.h >= 16
    /\ args.w % 16 = 0 /\ args.w >= 16

C12_Generator ==
    LET g == models[locals.generator]
    IN  /\ g.hidden = (args.h \div 16) * (args.w \div 16) * 512
        /\ Count(g.layers, "Lambda") = 3
        /\ Count(g.layers, "PixelShuffler") = 1
        /\ g.output_shape = <<16 * (args.h \div 16), 16 * (args.w \div 16), args.c>>

C12_Shapes ==
    LET g == models[locals.generator]
        d == models[locals.discriminator]
    IN  /\ d.input_shape = <<args.h, args.w, args.c>>
        /\ g.output_shape = d.input_shape <=> Fits16
        /\ ~Fits16 => CallRaises(d, g.output_shape)
        /\ Fits16 => ~CallRaises(d, g.output_shape)

C12_Graph ==
    /\ pc = "raised" => ~Fits16 /\ tensors = Empty
    /\ tensors # Empty => Fits16 /\ Sound(models, tensors)
    /\ \A n \in DOMAIN tensors :
          tensors[n].op = "RandomWeightedAverage" =>
              /\ tensors[tensors[n].args[1]].shape = <<args.h, args.w, args.c>>
              /\ tensors[tensors[n].args[2]].shape = <<args.h, args.w, args.c>>
    /\ pc = "returned" => Fits16

C12_GeneratorSize ==
    builder \in NoiseBuilders /\ pc # "start" =>
        /\ C12_Generator
        /\ C12_Shapes
        /\ C12_Graph

C12_Witness ==
    /\ builder = "build_gan" /\ pc = "raised"
    /\ args.h = 31 /\ args.w = 32
    /\ models[locals.generator].output_shape = <<16, 32, args.c>>
    /\ models[locals.discriminator].input_shape = <<31, 32, args.c>>

----------------------------------------------------------------------------
(* C13: residual_ae maps an (h, w, c_in) input to an output of c_out       *)
(* channels and spatial size (4*ceil(ceil(h/2)/2), 4*ceil(ceil(w/2)/2)),   *)
(* through two x2 bilinear upsamplings after the two halvings; the output  *)
(* has the input's height and width exactly when h and w are multiples of  *)
(* 4.  In build_cyclegan and build_cyclewgan the chained generator calls   *)
(* and the two cycle-loss subtractions are between equal shapes exactly    *)
(* then, and the builder raises only for an h or w that is no multiple     *)
(* of 4.                                                                   *)

Ceil(a, b) == -((-a) \div b)

Fits4 == args.h % 4 = 0 /\ args.w % 4 = 0

C13_Maps(g, c_in, c_out) ==
    /\ g.input_shape = <<args.h, args.w, c_in>>
    /\ g.output_shape = <<4 * Ceil(Ceil(args.h, 2), 2), 4 * Ceil(Ceil(args.w, 2), 2), c_out>>
    /\ Count(g.layers, "Lambda") = 2
    /\ g.hidden = Ceil(Ceil(args.h, 2), 2) * Ceil(Ceil(args.w, 2), 2) * 128
    /\ (g.output_shape[1] = args.h /\ g.output_shape[2] = args.w) <=> Fits4

C13_Chained ==
    /\ tensors.generator_A_layers.shape = models[locals.generator_B].input_shape <=> Fits4
    /\ tensors.generator_B_layers.shape = models[locals.generator_A].input_shape <=> Fits4

C13_Subtracted ==
    /\ tensors.generator_A_input.shape = tensors.generator_AB_layers.shape <=> Fits4
    /\ tensors.generator_B_input.shape = tensors.generator_BA_layers.shape <=> Fits4
    /\ \A j \in DOMAIN joint : \A t \in Terms(j) :
          t.kind = "mean_abs_diff" =>
              /\ tensors[t.a].op = "Input"
              /\ tensors[t.a].shape = tensors[t.b].shape <=> Fits4

C13_RoundTripSize ==
    builder \in CycleBuilders /\ pc # "start" =>
        /\ C13_Maps(models[locals.generator_A], args.c_A, args.c_B)
        /\ C13_Maps(models[locals.generator_B], args.c_B, args.c_A)
        /\ "generator_AB_layers" \in DOMAIN tensors => C13_Chained /\ C13_Subtracted
        /\ pc = "raised" => ~Fits4

C13_Witness ==
    /\ builder = "build_cyclegan" /\ pc = "raised"
    /\ args.h = 6 /\ args.w = 8
    /\ args.c_A # args.c_B
    /\ tensors.generator_A_input.shape = <<6, 8, args.c_A>>
    /\ tensors.generator_AB_layers.shape = <<8, 8, args.c_A>>

----------------------------------------------------------------------------
(* C14: in build_cyclegan the loss of each discriminator model is          *)
(* 0.5*mean((D(real) - 1)^2) + 0.5*mean((D(fake) + 1)^2), with D the       *)
(* model's own discriminator and fake the other domain's input passed      *)
(* through one generator; the adversarial terms of generator_model are     *)
(* 0.5*mean(discriminator_B(generator_A(A))^2) and                         *)
(* 0.5*mean(discriminator_A(generator_B(B))^2); the discriminator outputs  *)
(* on the two round-trip images are outputs of generator_model that no     *)
(* loss term reads and that have no per-output loss.                       *)

SquareTerms(j) == { t \in Terms(j) : t.kind = "mean_square" }

(* The value of the discriminator output at which the term vanishes. *)
Target(t) == 0 - t.shift

IsHalf(t) == t.num = 1 /\ t.den = 2

InputA == <<"Input", <<args.h, args.w, args.c_A>>>>

InputB == <<"Input", <<args.h, args.w, args.c_B>>>>

C14_Discriminator(j, D, real, fake) ==
    /\ Len(joint[j].losses) = 1
    /\ Terms(j) = SquareTerms(j)
    /\ Cardinality(SquareTerms(j)) = 2
    /\ \E t \in SquareTerms(j) :
          IsHalf(t) /\ Target(t) = 1 /\ Expr(t.a) = <<"call", D, real>>
    /\ \E t \in SquareTerms(j) :
          IsHalf(t) /\ Target(t) = -1 /\ Expr(t.a) = <<"call", D, fake>>
    /\ joint[j].loss = <<"None">>

(* The outputs of generator_model that judge a round-trip image. *)
RoundTripOutputs ==
    { o \in Range(joint.generator_model.outputs) :
        LET x == tensors[o].args[1]
        IN  /\ tensors[x].op = "call"
            /\ tensors[tensors[x].args[1]].op = "call" }

C14_GeneratorTerms ==
    LET GA == locals.generator_A        GB == locals.generator_B
        DA == locals.discriminator_A    DB == locals.discriminator_B
    IN  /\ Cardinality(SquareTerms("generator_model")) = 2
        /\ \A t \in SquareTerms("generator_model") : IsHalf(t) /\ Target(t) = 0
        /\ { Expr(t.a) : t \in SquareTerms("generator_model") }
              = { <<"call", DB, <<"call", GA, InputA>>>>,
                  <<"call", DA, <<"call", GB, InputB>>>> }
        /\ { Expr(o) : o \in RoundTripOutputs }
              = { <<"call", DA, <<"call", GB, <<"call", GA, InputA>>>>>>,
                  <<"call", DB, <<"call", GA, <<"call", GB, InputB>>>>>> }
        /\ Cardinality(RoundTripOutputs) = 2
        /\ \A t \in Terms("generator_model") :
              t.a \notin RoundTripOutputs /\ t.b \notin RoundTripOutputs
        /\ joint.generator_model.loss = <<"None">>

C14_LeastSquares ==
    builder = "build_cyclegan" =>
        /\ Has("generator_model") => C14_GeneratorTerms
        /\ Has("discriminator_A_model") =>
              C14_Discriminator("discriminator_A_model", locals.discriminator_A, InputA,
                                <<"call", locals.generator_B, InputB>>)
        /\ Has("discriminator_B_model") =>
              C14_Discriminator("discriminator_B_model", locals.discriminator_B, InputB,
                                <<"call", locals.generator_A, InputA>>)

C14_Witness ==
    /\ builder = "build_cyclegan" /\ pc = "returned"
    /\ args.c_A # args.c_B
    /\ Cardinality(SquareTerms("generator_model")) = 2
    /\ Cardinality(SquareTerms("discriminator_A_model")) = 2
    /\ Cardinality(SquareTerms("discriminator_B_model")) = 2
    /\ Cardinality(RoundTripOutputs) = 2

====
